---- MODULE Spec2Model ----
(***************************************************************************)
(* Model of the <name-tag> custom element of src/index.js: the render      *)
(* template, the shared style sheet, the greeting attribute/property pair, *)
(* connectedCallback and attributeChangedCallback, together with the       *)
(* platform operations the element relies on (setAttribute,                *)
(* removeAttribute, the innerHTML setter of the shadow root).              *)
(*                                                                         *)
(* Strings are sequences of one-character strings.  A value that may be    *)
(* null is a sequence of length 0 (null) or 1 (the string it holds).       *)
(***************************************************************************)
EXTENDS Integers, Sequences, FiniteSets, TLC

VARIABLES
    created,      \* created[i]: the constructor of instance i has run
    attributes,   \* attributes[i]: the greeting attribute of i, Null if absent
    shadowRoot,   \* shadowRoot[i]: mode, adoptedStyleSheets and childNodes
    connected,    \* connected[i]: i is part of the live document
    styles,       \* the module-level CSSStyleSheet
    lastOp,       \* the operation that ran last, its input and its outcome
    otherAttributes, \* otherAttributes[i]: the title attribute of i, Null if absent
    children,     \* children[i]: the light-DOM child nodes of i
    customProps   \* customProps[i]: the --color the page supplies to i, Null if none

vars == <<created, attributes, shadowRoot, connected, styles, lastOp,
          otherAttributes, children, customProps>>

\* Longest greeting string an outside caller writes.
MaxLen == 3

\* Characters callers build greetings from: a lower-case letter, an
\* upper-case letter and the markup character.
Alphabet == {"a", "B", "<"}

RECURSIVE StringsOfLen(_)
StringsOfLen(n) ==
    IF n = 0 THEN {<<>>}
    ELSE {Append(s, c) : s \in StringsOfLen(n - 1), c \in Alphabet}

\* A greeting that opens an HTML comment.
Samples == {<<"<", "!", "-", "-">>}

Strings == UNION {StringsOfLen(n) : n \in 0..MaxLen} \cup Samples

Null == <<>>
Str(s) == <<s>>

\* The instances of the element that the document creates.
Instances == DOMAIN created

(***************************************************************************)
(* String.prototype.toUpperCase and the ASCII lower-casing of the HTML     *)
(* tokenizer, over the characters that occur in the model.                 *)
(***************************************************************************)
UpperChar(c) ==
    CASE c = "a" -> "A"
      [] c = "b" -> "B"
      [] c = "e" -> "E"
      [] c = "h" -> "H"
      [] c = "l" -> "L"
      [] c = "o" -> "O"
      [] OTHER -> c

LowerChar(c) ==
    CASE c = "A" -> "a"
      [] c = "B" -> "b"
      [] c = "E" -> "e"
      [] c = "H" -> "h"
      [] c = "L" -> "l"
      [] c = "O" -> "o"
      [] OTHER -> c

IsAsciiAlpha(c) == UpperChar(c) # c \/ LowerChar(c) # c

ToUpperCase(s) == [k \in 1..Len(s) |-> UpperChar(s[k])]

(***************************************************************************)
(* The DOM of a shadow root: a sequence of nodes, each an element (tag,    *)
(* part attribute, child nodes), a text node or a comment.  Text nodes that *)
(* hold only the template's white space are left out.  A comment node      *)
(* keeps the markup it swallowed as its data.                              *)
(***************************************************************************)
Element(tag, part, childNodes) ==
    [tag |-> tag, part |-> part, data |-> <<>>, childNodes |-> childNodes]

Text(data) ==
    [tag |-> "#text", part |-> "", data |-> data, childNodes |-> <<>>]

Comment(data) ==
    [tag |-> "#comment", part |-> "", data |-> data, childNodes |-> <<>>]

\* A text node for the characters s, or nothing when there are none.
TextNodes(s) == IF s = <<>> THEN <<>> ELSE <<Text(s)>>

Caption == <<"m", "y", " ", "n", "a", "m", "e", " ", "i", "s">>

\* The template literal of render: the text before and after ${...}.
TemplateHead == "<div part=\"header\" class=\"header\"><h3 part=\"greeting\">"
TemplateTail == "</h3><h4 part=\"message\">my name is</h4></div><div part=\"body\" class=\"body\"><slot></slot></div><div part=\"footer\" class=\"footer\"></div>"

\* x.greeting.toUpperCase() raises a TypeError when x.greeting is null.
RenderThrows(greeting) == greeting = Null

\* render(x), given the value x.greeting reads: the markup, as the head of
\* the template, the characters of the upper-cased greeting, and the tail.
Render(greeting) ==
    <<TemplateHead>> \o ToUpperCase(greeting[1]) \o <<TemplateTail>>

(***************************************************************************)
(* The HTML fragment parser behind the innerHTML setter, on the markup     *)
(* render produces, for greetings made of ASCII letters, "<", "!" and "-". *)
(* The interpolated characters are not escaped, so the tokenizer reads     *)
(* them as markup.  A "<" that a letter or "!" follows opens markup; any   *)
(* other "<" is character data.                                            *)
(*  - "<" and a letter open a start tag.  Its name runs to the next white  *)
(*    space, "/" or ">", which are in the template's "</h3>": the name is  *)
(*    the lower-cased rest of the greeting and the "<" of "</h3>", and     *)
(*    "/h3>" is read as the tag's attribute.  The h3 element is still      *)
(*    open, with the unknown element inside it, when the h4 element        *)
(*    starts, and both close at the header's "</div>".                     *)
(*  - "<!--" opens a comment, which nothing closes ("-->" occurs neither   *)
(*    in the greeting nor in the template): the rest of the markup, the    *)
(*    body and the footer included, is the comment's data.                 *)
(*  - any other "<!" opens a bogus comment, which the ">" of "</h3>"       *)
(*    closes; the start of the h4 element then closes the h3 element.      *)
(***************************************************************************)
RECURSIVE MarkupAt(_, _)
MarkupAt(s, k) ==
    IF k >= Len(s) THEN 0
    ELSE IF s[k] = "<" /\ (IsAsciiAlpha(s[k + 1]) \/ s[k + 1] = "!") THEN k
    ELSE MarkupAt(s, k + 1)

RECURSIVE TagName(_)
TagName(s) ==
    IF s = <<>> THEN "<" ELSE LowerChar(Head(s)) \o TagName(Tail(s))

MessageNode == Element("h4", "message", <<Text(Caption)>>)

BodyNode == Element("div", "body", <<Element("slot", "", <<>>)>>)

FooterNode == Element("div", "footer", <<>>)

ParseFragment(markup) ==
    LET text == SubSeq(markup, 2, Len(markup) - 1)
        tail == markup[Len(markup)]
        k == MarkupAt(text, 1)
        before == TextNodes(SubSeq(text, 1, k - 1))
        rest == SubSeq(text, k + 2, Len(text))
    IN
    IF k = 0
    THEN << Element("div", "header",
                    <<Element("h3", "greeting", TextNodes(text)), MessageNode>>),
            BodyNode, FooterNode >>
    ELSE IF text[k + 1] # "!"
    THEN << Element("div", "header",
                    <<Element("h3", "greeting",
                              before
                              \o <<Element(TagName(SubSeq(text, k + 1, Len(text))), "",
                                           <<MessageNode>>)>>)>>),
            BodyNode, FooterNode >>
    ELSE IF Len(rest) >= 2 /\ rest[1] = "-" /\ rest[2] = "-"
    THEN << Element("div", "header",
                    <<Element("h3", "greeting",
                              before
                              \o <<Comment(SubSeq(rest, 3, Len(rest)) \o <<tail>>)>>)>>) >>
    ELSE << Element("div", "header",
                    <<Element("h3", "greeting", before \o <<Comment(rest \o <<"</h3">>)>>),
                      MessageNode>>),
            BodyNode, FooterNode >>

(***************************************************************************)
(* Observations of a shadow root's DOM.                                    *)
(***************************************************************************)
RECURSIVE TextContent(_), TextContentOfNodes(_)
TextContent(node) ==
    IF node.tag = "#text" THEN node.data
    ELSE IF node.tag = "#comment" THEN <<>>
    ELSE TextContentOfNodes(node.childNodes)
TextContentOfNodes(nodes) ==
    IF nodes = <<>> THEN <<>>
    ELSE TextContent(Head(nodes)) \o TextContentOfNodes(Tail(nodes))

\* The elements of a DOM, in document order.
RECURSIVE ElementsOf(_)
ElementsOf(nodes) ==
    IF nodes = <<>> THEN <<>>
    ELSE LET n == Head(nodes) IN
         (IF n.tag \in {"#text", "#comment"} THEN <<>> ELSE <<n>> \o ElementsOf(n.childNodes))
         \o ElementsOf(Tail(nodes))

\* Number of <slot> elements in a DOM.
SlotCount(nodes) ==
    Cardinality({k \in 1..Len(ElementsOf(nodes)) : ElementsOf(nodes)[k].tag = "slot"})

\* The text of the elements carrying part="greeting", in document order.
GreetingTexts(nodes) ==
    LET es == ElementsOf(nodes)
        RECURSIVE Pick(_)
        Pick(k) == IF k > Len(es) THEN <<>>
                   ELSE (IF es[k].part = "greeting" THEN <<TextContent(es[k])>> ELSE <<>>)
                        \o Pick(k + 1)
    IN Pick(1)

(***************************************************************************)
(* The element.                                                            *)
(***************************************************************************)
\* The default greeting connectedCallback assigns.
Hello == <<"H", "e", "l", "l", "o">>

\* An observedAttributes that lists the title attribute as well.
observedAttributesWithTitle == {"greeting", "title"}

\* static get observedAttributes()
observedAttributes == {"greeting"}

\* The style sheet object of the module: new CSSStyleSheet() and replaceSync.
\* Of its rules, the declarations that decide colours: --default-color of
\* :host, and the background of :host and of .footer, each
\* var(--color, var(--default-color)), as the custom properties it tries.
StylesAtLoad ==
    [id |-> "styles", replaced |-> TRUE,
     rules |-> [hostDefaultColor |-> "red",
                hostBackground |-> <<"--color", "--default-color">>,
                footerBackground |-> <<"--color", "--default-color">>]]

NoShadowRoot == [mode |-> "none", adoptedStyleSheets |-> <<>>, childNodes |-> <<>>]

\* this.attachShadow({ mode: 'open' })
AttachShadow == [mode |-> "open", adoptedStyleSheets |-> <<>>, childNodes |-> <<>>]

Op(op, i, arg, result, threw, reactions) ==
    [op |-> op, inst |-> i, arg |-> arg, result |-> result,
     threw |-> threw, reactions |-> reactions]

\* A getter that substitutes the default for a missing or empty attribute.
GetGreetingOrDefault(i) ==
    IF attributes[i] = Null \/ attributes[i] = Str(<<>>) THEN Str(Hello)
    ELSE attributes[i]

\* get greeting(): this.getAttribute('greeting')
GetGreeting(i) == attributes[i]

\* A test for null alone: this.greeting === null.
DefaultNeededNullOnly(greeting) == greeting = Null

\* A test that always asks for the default.
DefaultNeededAlways(greeting) == TRUE

\* !this.greeting
DefaultNeeded(greeting) == greeting = Null \/ greeting = Str(<<>>)

\* attributeChangedCallback: this.shadowRoot.innerHTML = render(this), for
\* the shadow root `root` and the value this.greeting reads.  When render
\* throws, the assignment does not happen.
AttributeChangedCallback(root, greeting) ==
    IF RenderThrows(greeting) THEN root
    ELSE [root EXCEPT !.childNodes = ParseFragment(Render(greeting))]

\* A setter that substitutes the default for the empty string.
StoredValueOrDefault(value) == IF value = <<>> THEN Str(Hello) ELSE Str(value)

\* The string setAttribute stores for the value it is given.
StoredValue(value) == Str(value)

\* A setAttribute whose change reaction renders into a root the instances
\* share (a module-level variable), so that every created instance shows it.
SetAttributeSharedRoot(i, value, op) ==
    /\ attributes' = [attributes EXCEPT ![i] = StoredValue(value)]
    /\ shadowRoot' = [j \in DOMAIN shadowRoot |->
                        IF created[j]
                        THEN AttributeChangedCallback(shadowRoot[j], StoredValue(value))
                        ELSE shadowRoot[j]]
    /\ lastOp' = Op(op, i, Str(value), Null, RenderThrows(StoredValue(value)), 1)

\* Element.setAttribute('greeting', value) on a created instance: the value
\* is stored and, greeting being observed, the change reaction runs once
\* before setAttribute returns, also when the value is the same as before.
SetAttribute(i, value, op) ==
    /\ attributes' = [attributes EXCEPT ![i] = StoredValue(value)]
    /\ shadowRoot' = [shadowRoot EXCEPT
                        ![i] = AttributeChangedCallback(@, StoredValue(value))]
    /\ lastOp' = Op(op, i, Str(value), Null, RenderThrows(StoredValue(value)), 1)

\* The module is loaded and the page is about to create the instances ids.
InitFor(ids) ==
    /\ created = [i \in ids |-> FALSE]
    /\ attributes = [i \in ids |-> Null]
    /\ shadowRoot = [i \in ids |-> NoShadowRoot]
    /\ connected = [i \in ids |-> FALSE]
    /\ styles = StylesAtLoad
    /\ lastOp = Op("load", "", Null, Null, FALSE, 0)
    /\ otherAttributes = [i \in ids |-> Null]
    /\ children = [i \in ids |-> <<>>]
    /\ customProps = [i \in ids |-> Null]

Init == InitFor({"tag1"})

\* A constructor that makes a style sheet of its own for the instance.
ConstructWithOwnSheet(i) ==
    /\ ~created[i]
    /\ created' = [created EXCEPT ![i] = TRUE]
    /\ shadowRoot' = [shadowRoot EXCEPT
                        ![i] = [AttachShadow EXCEPT
                                  !.adoptedStyleSheets = @ \o <<styles.id \o "-" \o i>>]]
    /\ lastOp' = Op("construct", i, Null, Null, FALSE, 0)
    /\ UNCHANGED <<attributes, connected, styles, otherAttributes, children, customProps>>

\* A constructor that still renders, as before render was moved to the
\* change reaction.
ConstructRendering(i) ==
    /\ ~created[i]
    /\ created' = [created EXCEPT ![i] = TRUE]
    /\ shadowRoot' = [shadowRoot EXCEPT
                        ![i] = [AttachShadow EXCEPT
                                  !.adoptedStyleSheets = @ \o <<styles.id>>,
                                  !.childNodes = ParseFragment(Render(Str(Hello)))]]
    /\ lastOp' = Op("construct", i, Null, Null, FALSE, 0)
    /\ UNCHANGED <<attributes, connected, styles, otherAttributes, children, customProps>>

\* constructor()
Construct(i) ==
    /\ ~created[i]
    /\ created' = [created EXCEPT ![i] = TRUE]
    /\ shadowRoot' = [shadowRoot EXCEPT
                        ![i] = [AttachShadow EXCEPT
                                  !.adoptedStyleSheets = @ \o <<styles.id>>]]
    /\ lastOp' = Op("construct", i, Null, Null, FALSE, 0)
    /\ UNCHANGED <<attributes, connected, styles, otherAttributes, children, customProps>>

\* el.greeting = value
SetGreeting(i, value) ==
    /\ created[i]
    /\ SetAttribute(i, value, "set")
    /\ UNCHANGED <<created, connected, styles, otherAttributes, children, customProps>>

\* el.greeting
ReadGreeting(i) ==
    /\ created[i]
    /\ lastOp' = Op("get", i, Null, GetGreeting(i), FALSE, 0)
    /\ UNCHANGED <<created, attributes, shadowRoot, connected, styles, otherAttributes, children, customProps>>

\* el.setAttribute('greeting', value), called from outside the element
SetAttributeCall(i, value) ==
    /\ created[i]
    /\ SetAttribute(i, value, "setAttribute")
    /\ UNCHANGED <<created, connected, styles, otherAttributes, children, customProps>>

\* el.removeAttribute('greeting'), called from outside the element.  With
\* the attribute absent nothing changes and no reaction runs; otherwise the
\* attribute is removed and the change reaction runs with this.greeting null.
RemoveAttributeCall(i) ==
    /\ created[i]
    /\ IF attributes[i] = Null
       THEN /\ lastOp' = Op("removeAttribute", i, Null, Null, FALSE, 0)
            /\ UNCHANGED <<attributes, shadowRoot>>
       ELSE /\ attributes' = [attributes EXCEPT ![i] = Null]
            /\ shadowRoot' = [shadowRoot EXCEPT
                                ![i] = AttributeChangedCallback(@, Null)]
            /\ lastOp' = Op("removeAttribute", i, Null, Null, RenderThrows(Null), 1)
    /\ UNCHANGED <<created, connected, styles, otherAttributes, children, customProps>>

\* A connectedCallback that stores the default without the platform's
\* setAttribute, so that no change reaction runs.
ConnectedCallbackSilent(i) ==
    IF DefaultNeeded(GetGreeting(i))
    THEN /\ attributes' = [attributes EXCEPT ![i] = StoredValue(Hello)]
         /\ lastOp' = Op("connect", i, GetGreeting(i), Null, FALSE, 0)
         /\ UNCHANGED shadowRoot
    ELSE /\ lastOp' = Op("connect", i, GetGreeting(i), Null, FALSE, 0)
         /\ UNCHANGED <<attributes, shadowRoot>>

\* connectedCallback(), run when the instance is inserted into the document
ConnectedCallback(i) ==
    IF DefaultNeeded(GetGreeting(i))
    THEN /\ attributes' = [attributes EXCEPT ![i] = StoredValue(Hello)]
         /\ shadowRoot' = [shadowRoot EXCEPT
                             ![i] = AttributeChangedCallback(@, StoredValue(Hello))]
         /\ lastOp' = Op("connect", i, GetGreeting(i), Null,
                         RenderThrows(StoredValue(Hello)), 1)
    ELSE /\ lastOp' = Op("connect", i, GetGreeting(i), Null, FALSE, 0)
         /\ UNCHANGED <<attributes, shadowRoot>>

\* An insertion into the document on which no connectedCallback runs (the
\* method is misnamed, so the platform finds none).
ConnectWithoutCallback(i) ==
    /\ created[i]
    /\ ~connected[i]
    /\ connected' = [connected EXCEPT ![i] = TRUE]
    /\ lastOp' = Op("connect", i, GetGreeting(i), Null, FALSE, 0)
    /\ UNCHANGED <<created, attributes, shadowRoot, styles, otherAttributes, children, customProps>>

Connect(i) ==
    /\ created[i]
    /\ ~connected[i]
    /\ connected' = [connected EXCEPT ![i] = TRUE]
    /\ ConnectedCallback(i)
    /\ UNCHANGED <<created, styles, otherAttributes, children, customProps>>

\* The instance is removed from the document: the class defines no
\* disconnectedCallback, so nothing of the element runs.
Disconnect(i) ==
    /\ created[i]
    /\ connected[i]
    /\ connected' = [connected EXCEPT ![i] = FALSE]
    /\ lastOp' = Op("disconnect", i, Null, Null, FALSE, 0)
    /\ UNCHANGED <<created, attributes, shadowRoot, styles, otherAttributes, children, customProps>>

\* A node an outside party puts into the open shadow root.
ForeignNode == Element("p", "", <<>>)

\* Outside code reaches the shadow root (mode 'open') and appends a node.
TamperAppend(i) ==
    /\ created[i]
    /\ \A k \in 1..Len(shadowRoot[i].childNodes) :
          shadowRoot[i].childNodes[k] # ForeignNode
    /\ shadowRoot' = [shadowRoot EXCEPT ![i].childNodes = Append(@, ForeignNode)]
    /\ lastOp' = Op("tamper", i, Null, Null, FALSE, 0)
    /\ UNCHANGED <<created, attributes, connected, styles, otherAttributes, children, customProps>>

\* Outside code removes the first child of the shadow root.
TamperRemove(i) ==
    /\ created[i]
    /\ shadowRoot[i].childNodes # <<>>
    /\ shadowRoot' = [shadowRoot EXCEPT ![i].childNodes = Tail(@)]
    /\ lastOp' = Op("tamper", i, Null, Null, FALSE, 0)
    /\ UNCHANGED <<created, attributes, connected, styles, otherAttributes, children, customProps>>

(***************************************************************************)
(* The rest of the page: another attribute of an instance, its light-DOM   *)
(* children, and the custom property the page's style sheets supply.       *)
(***************************************************************************)
\* Most light-DOM children the page gives an instance.
MaxChildren == 2

\* The greetings written where the page has more state than one instance's
\* greeting: the empty string, a letter, a start tag and a comment.
PageStrings == {<<>>, <<"a">>, <<"<", "a">>, <<"<", "!", "-", "-">>}

\* Values of the title attribute.
TitleStrings == {<<>>, <<"a">>}

\* Nodes the page puts between <name-tag> and </name-tag>.
LightNodes == {Text(<<"a">>), Element("em", "", <<>>)}

\* The platform runs attributeChangedCallback for a change of the attribute
\* name only when observedAttributes lists it.
Observed(name) == name \in observedAttributes

\* el.setAttribute('title', value) or el.removeAttribute('title'), leaving
\* the title attribute as `stored`: the change reaction, when the platform
\* runs it, renders from this.greeting whatever the attribute's name.
ChangeTitle(i, stored, op) ==
    /\ otherAttributes' = [otherAttributes EXCEPT ![i] = stored]
    /\ IF Observed("title")
       THEN /\ shadowRoot' = [shadowRoot EXCEPT
                                ![i] = AttributeChangedCallback(@, GetGreeting(i))]
            /\ lastOp' = Op(op, i, stored, Null, RenderThrows(GetGreeting(i)), 1)
       ELSE /\ lastOp' = Op(op, i, stored, Null, FALSE, 0)
            /\ UNCHANGED shadowRoot
    /\ UNCHANGED <<created, attributes, connected, styles, children, customProps>>

SetTitle(i, value) ==
    /\ created[i]
    /\ ChangeTitle(i, Str(value), "setTitle")

RemoveTitle(i) ==
    /\ created[i]
    /\ otherAttributes[i] # Null
    /\ ChangeTitle(i, Null, "removeTitle")

\* The page appends a child to the instance (light DOM).
AppendChild(i, node) ==
    /\ created[i]
    /\ Len(children[i]) < MaxChildren
    /\ children' = [children EXCEPT ![i] = Append(@, node)]
    /\ lastOp' = Op("appendChild", i, Null, Null, FALSE, 0)
    /\ UNCHANGED <<created, attributes, shadowRoot, connected, styles,
                   otherAttributes, customProps>>

\* The page removes the first child of the instance.
RemoveChild(i) ==
    /\ created[i]
    /\ children[i] # <<>>
    /\ children' = [children EXCEPT ![i] = Tail(@)]
    /\ lastOp' = Op("removeChild", i, Null, Null, FALSE, 0)
    /\ UNCHANGED <<created, attributes, shadowRoot, connected, styles,
                   otherAttributes, customProps>>

\* Colours the page's style sheets give --color.
Colors == {"blue", "green"}

\* The page's style sheets set --color for the instance, or stop setting it.
SetCustomProperty(i, value) ==
    /\ created[i]
    /\ customProps[i] # value
    /\ customProps' = [customProps EXCEPT ![i] = value]
    /\ lastOp' = Op("style", i, value, Null, FALSE, 0)
    /\ UNCHANGED <<created, attributes, shadowRoot, connected, styles,
                   otherAttributes, children>>

\* The custom properties in effect on the host element of i: --color as the
\* page supplies it, and --default-color from the :host rule when the
\* sheet is adopted.  The elements of the shadow tree inherit both.
CustomProperty(i, name) ==
    CASE name = "--color" -> customProps[i]
      [] name = "--default-color" ->
            IF \E k \in 1..Len(shadowRoot[i].adoptedStyleSheets) :
                  shadowRoot[i].adoptedStyleSheets[k] = styles.id
            THEN Str(styles.rules.hostDefaultColor)
            ELSE Null
      [] OTHER -> Null

\* var(a, var(b)) for the properties tried in turn: the first that is set.
RECURSIVE Var(_, _)
Var(i, names) ==
    IF names = <<>> THEN Null
    ELSE IF CustomProperty(i, Head(names)) # Null THEN CustomProperty(i, Head(names))
    ELSE Var(i, Tail(names))

\* background of :host
HostBackground(i) == Var(i, styles.rules.hostBackground)

\* A footer rule that takes the default colour alone: var(--default-color).
FooterBackgroundDefaultOnly(i) == Var(i, <<"--default-color">>)

\* background of .footer
FooterBackground(i) == Var(i, styles.rules.footerBackground)

\* The nodes the composed tree shows in place of the slot: the default slot
\* takes all the light-DOM children, and without a slot none is shown.
AssignedNodes(i) ==
    IF SlotCount(shadowRoot[i].childNodes) >= 1 THEN children[i] ELSE <<>>

Next ==
    \/ \E i \in Instances : Construct(i)
    \/ \E i \in Instances, value \in Strings : SetGreeting(i, value)
    \/ \E i \in Instances : ReadGreeting(i)
    \/ \E i \in Instances, value \in Strings : SetAttributeCall(i, value)
    \/ \E i \in Instances : RemoveAttributeCall(i)
    \/ \E i \in Instances : Connect(i)
    \/ \E i \in Instances : Disconnect(i)
    \/ \E i \in Instances : TamperAppend(i)
    \/ \E i \in Instances : TamperRemove(i)

Spec == Init /\ [][Next]_vars

\* One instance with its title attribute and its light-DOM children.
NextLight ==
    \/ \E i \in Instances : Construct(i)
    \/ \E i \in Instances, value \in PageStrings : SetGreeting(i, value)
    \/ \E i \in Instances : ReadGreeting(i)
    \/ \E i \in Instances, value \in PageStrings : SetAttributeCall(i, value)
    \/ \E i \in Instances : RemoveAttributeCall(i)
    \/ \E i \in Instances : Connect(i)
    \/ \E i \in Instances : Disconnect(i)
    \/ \E i \in Instances : TamperAppend(i)
    \/ \E i \in Instances : TamperRemove(i)
    \/ \E i \in Instances, value \in TitleStrings : SetTitle(i, value)
    \/ \E i \in Instances : RemoveTitle(i)
    \/ \E i \in Instances, node \in LightNodes : AppendChild(i, node)
    \/ \E i \in Instances : RemoveChild(i)

SpecLight == Init /\ [][NextLight]_vars

\* Two instances on one page, each with the --color the page supplies.
InitPage == InitFor({"tag1", "tag2"})

NextPage ==
    \/ \E i \in Instances : Construct(i)
    \/ \E i \in Instances, value \in PageStrings : SetGreeting(i, value)
    \/ \E i \in Instances : ReadGreeting(i)
    \/ \E i \in Instances, value \in PageStrings : SetAttributeCall(i, value)
    \/ \E i \in Instances : RemoveAttributeCall(i)
    \/ \E i \in Instances : Connect(i)
    \/ \E i \in Instances : Disconnect(i)
    \/ \E i \in Instances, c \in Colors : SetCustomProperty(i, Str(c))
    \/ \E i \in Instances : SetCustomProperty(i, Null)

SpecPage == InitPage /\ [][NextPage]_vars

(***************************************************************************)
(* Properties.                                                             *)
(***************************************************************************)
Unset(greeting) == greeting = Null \/ greeting = Str(<<>>)

\* C1: when connectedCallback runs on an instance whose greeting attribute
\* is absent or the empty string, greeting reads "Hello" once it has run.
C1_DefaultAfterAttach ==
    (lastOp.op = "connect" /\ Unset(lastOp.arg))
        => attributes[lastOp.inst] = Str(Hello)

C1_Witness ==
    /\ lastOp.op = "connect"
    /\ lastOp.arg = Null
    /\ attributes[lastOp.inst] = Str(Hello)
    /\ connected[lastOp.inst]

\* C2, as claimed: in every state where an instance is attached, its
\* greeting is neither unset nor the empty string.
C2_NeverUnsetWhileAttached ==
    \A i \in Instances : connected[i] => ~Unset(attributes[i])

\* C2, amended: an attached instance has an unset or empty greeting only
\* from a step that writes the empty string (property or setAttribute) or
\* removes the attribute, or because it already had one while attached; an
\* attachment never leaves the greeting unset or empty.
C2_UnsetOnlyByExplicitWrite ==
    [][\A i \in Instances :
          (connected'[i] /\ Unset(attributes'[i]))
              => \/ connected[i] /\ Unset(attributes[i])
                 \/ /\ connected[i]
                    /\ lastOp'.inst = i
                    /\ \/ lastOp'.op \in {"set", "setAttribute"} /\ lastOp'.arg = Str(<<>>)
                       \/ lastOp'.op = "removeAttribute"]_vars

C2_Witness ==
    \E i \in Instances :
        /\ connected[i]
        /\ attributes[i] = Str(<<>>)
        /\ lastOp = Op("set", i, Str(<<>>), Null, FALSE, 1)

\* The render root of i shows the current greeting.
Fresh(i) ==
    /\ attributes[i] # Null
    /\ GreetingTexts(shadowRoot[i].childNodes) = <<ToUpperCase(attributes[i][1])>>

\* C3: after every operation of the element that changes the greeting
\* attribute or the render root, a non-empty render root shows the
\* upper-cased current value of the greeting attribute.
C3_RenderedNeverStale ==
    [][\A i \in Instances :
          ( /\ lastOp'.op # "tamper"
            /\ <<attributes[i], shadowRoot[i]>> # <<attributes'[i], shadowRoot'[i]>>
            /\ shadowRoot'[i].childNodes # <<>> )
              => Fresh(i)']_vars

\* C4: right after the greeting property is written with s, the greeting
\* getter returns s, whether the instance is attached or not.
C4_ReadAfterWrite ==
    lastOp.op = "set" => GetGreeting(lastOp.inst) = lastOp.arg

C4_Witness ==
    /\ lastOp.op = "set"
    /\ lastOp.arg = Str(<<>>)
    /\ connected[lastOp.inst]
    /\ GetGreeting(lastOp.inst) = Str(<<>>)

\* C5: after a change reaction for a greeting value g, the text of the
\* greeting element of the render root is the upper-cased g.
C5_RendersUpperCased ==
    (lastOp.reactions = 1 /\ attributes[lastOp.inst] # Null)
        => GreetingTexts(shadowRoot[lastOp.inst].childNodes)
              = <<ToUpperCase(attributes[lastOp.inst][1])>>

\* C6: an attachment that finds no greeting runs the change reaction once,
\* without error, and the render root then holds what the reaction renders
\* for "Hello", as after an outside write of "Hello".
C6_DefaultRendersOnce ==
    (lastOp.op = "connect" /\ Unset(lastOp.arg))
        => /\ lastOp.reactions = 1
           /\ ~lastOp.threw
           /\ shadowRoot[lastOp.inst].childNodes = ParseFragment(Render(Str(Hello)))
           /\ GreetingTexts(shadowRoot[lastOp.inst].childNodes)
                 = << <<"H", "E", "L", "L", "O">> >>

C6_Witness ==
    /\ lastOp.op = "connect"
    /\ Unset(lastOp.arg)
    /\ lastOp.reactions = 1
    /\ SlotCount(shadowRoot[lastOp.inst].childNodes) = 1

HasForeignNode(root) ==
    \E k \in 1..Len(root.childNodes) : root.childNodes[k] = ForeignNode

\* C7: a change reaction on a render root that holds a node put there from
\* outside leaves the root without that node, holding exactly the output
\* of render for the current greeting.
C7_ReactionReplacesRoot ==
    [][\A i \in Instances :
          (HasForeignNode(shadowRoot[i]) /\ lastOp'.inst = i /\ lastOp'.reactions = 1)
              => /\ ~HasForeignNode(shadowRoot'[i])
                 /\ ~RenderThrows(attributes'[i])
                 /\ shadowRoot'[i].childNodes = ParseFragment(Render(attributes'[i]))]_vars

\* C8: the render root a change reaction has just produced holds exactly
\* one slot element, for every greeting value (the claim for the states
\* that follow a render; after construction the root holds none).
C8_ExactlyOneSlot ==
    (lastOp.reactions = 1 /\ ~lastOp.threw)
        => SlotCount(shadowRoot[lastOp.inst].childNodes) = 1

\* C9: no operation raises an error.
C9_NoOperationThrows == ~lastOp.threw

\* C10: the greeting setter stores exactly the value it is given; an empty
\* greeting stays empty under every step that is not a write or a removal
\* from outside, except an attachment, which replaces it by "Hello".
C10_SetterStoresAsGiven ==
    [][\A i \in Instances :
          /\ (lastOp'.op = "set" /\ lastOp'.inst = i) => attributes'[i] = lastOp'.arg
          /\ (attributes[i] = Str(<<>>) /\ lastOp'.op = "connect" /\ lastOp'.inst = i)
                => attributes'[i] = Str(Hello)
          /\ (attributes[i] = Str(<<>>) /\ attributes'[i] # Str(<<>>))
                => /\ lastOp'.inst = i
                   /\ lastOp'.op \in {"connect", "set", "setAttribute", "removeAttribute"}]_vars

C10_Witness ==
    /\ lastOp.op = "connect"
    /\ lastOp.arg = Str(<<>>)
    /\ attributes[lastOp.inst] = Str(Hello)

\* C11: setting, changing or removing the title attribute runs no change
\* reaction and leaves the greeting attribute and the render root as they
\* were.
C11_OnlyGreetingObserved ==
    [][lastOp'.op \in {"setTitle", "removeTitle"}
          => /\ lastOp'.reactions = 0
             /\ ~lastOp'.threw
             /\ attributes' = attributes
             /\ shadowRoot' = shadowRoot]_vars

C11_Witness ==
    /\ lastOp.op = "setTitle"
    /\ otherAttributes[lastOp.inst] = Str(<<"a">>)
    /\ attributes[lastOp.inst] = Str(<<"a">>)
    /\ HasForeignNode(shadowRoot[lastOp.inst])

\* C12: no operation of the element changes its light-DOM children, and
\* after every change reaction that rendered, the children are the nodes
\* projected through the slot of the body.
C12_ChildrenKeptAndProjected ==
    [][/\ lastOp'.op \notin {"appendChild", "removeChild"} => children' = children
       /\ \A i \in Instances :
             (lastOp'.inst = i /\ lastOp'.reactions = 1 /\ ~lastOp'.threw)
                 => AssignedNodes(i)' = children[i]]_vars

\* C13: the module has one style sheet object, which no operation changes
\* after the load, and the render root of every created instance adopts
\* exactly that object, once.
C13_OneSharedSheet ==
    /\ styles = StylesAtLoad
    /\ \A i \in Instances :
          created[i] => shadowRoot[i].adoptedStyleSheets = <<styles.id>>

C13_Witness ==
    /\ \A i \in Instances : created[i] /\ shadowRoot[i].childNodes # <<>>
    /\ Cardinality(Instances) = 2
    /\ shadowRoot["tag1"].adoptedStyleSheets = shadowRoot["tag2"].adoptedStyleSheets

\* The part attributes of the elements of a DOM, in document order.
PartsOf(nodes) ==
    LET es == ElementsOf(nodes)
        RECURSIVE Pick(_)
        Pick(k) == IF k > Len(es) THEN <<>>
                   ELSE (IF es[k].part # "" THEN <<es[k].part>> ELSE <<>>) \o Pick(k + 1)
    IN Pick(1)

\* C14: what a change reaction renders, for every greeting value, exposes
\* the parts header, greeting, message, body and footer once each and in
\* that order, with greeting and message the children of header, the slot
\* in body, footer empty and "my name is" as the message.
C14_FiveHooks ==
    (lastOp.reactions = 1 /\ ~lastOp.threw)
        => LET ns == shadowRoot[lastOp.inst].childNodes IN
           /\ PartsOf(ns) = <<"header", "greeting", "message", "body", "footer">>
           /\ Len(ns) = 3
           /\ PartsOf(ns[1].childNodes) = <<"greeting", "message">>
           /\ Len(ns[1].childNodes) = 2
           /\ ns[1].childNodes[2] = Element("h4", "message", <<Text(Caption)>>)
           /\ ns[2] = Element("div", "body", <<Element("slot", "", <<>>)>>)
           /\ ns[3] = Element("div", "footer", <<>>)

\* C15: for each instance, the host background is the --color the page
\* supplies for it, or red when it supplies none, and the footer background
\* is the same colour.
C15_ColorOverride ==
    \A i \in Instances :
        created[i]
            => /\ HostBackground(i)
                    = (IF customProps[i] = Null THEN Str("red") ELSE customProps[i])
               /\ FooterBackground(i) = HostBackground(i)

C15_Witness ==
    /\ Cardinality(Instances) = 2
    /\ \A i \in Instances : created[i]
    /\ customProps["tag1"] = Str("blue")
    /\ customProps["tag2"] = Null
    /\ HostBackground("tag1") = Str("blue")
    /\ FooterBackground("tag2") = Str("red")

\* C16: every transition of the greeting attribute of an instance runs one
\* change reaction that renders: when the mutation completes the render
\* root holds the output of render for the new value.
C16_OneRenderPerTransition ==
    [][\A i \in Instances :
          attributes'[i] # attributes[i]
              => /\ lastOp'.inst = i
                 /\ lastOp'.reactions = 1
                 /\ ~lastOp'.threw
                 /\ ~RenderThrows(attributes'[i])
                 /\ shadowRoot'[i].childNodes = ParseFragment(Render(attributes'[i]))]_vars

\* C17: an attachment that finds a non-empty greeting leaves the greeting
\* attribute and the render root unchanged and runs no change reaction.
C17_AttachKeepsValue ==
    [][\A i \in Instances :
          (lastOp'.op = "connect" /\ lastOp'.inst = i /\ ~Unset(attributes[i]))
              => /\ attributes'[i] = attributes[i]
                 /\ shadowRoot'[i] = shadowRoot[i]
                 /\ lastOp'.reactions = 0
                 /\ connected'[i]]_vars

C17_Witness ==
    /\ lastOp.op = "connect"
    /\ lastOp.arg = Str(<<"a">>)
    /\ lastOp.reactions = 0
    /\ attributes[lastOp.inst] = Str(<<"a">>)
    /\ connected[lastOp.inst]

\* C18: the constructor leaves an open render root that adopts the shared
\* sheet and has no child nodes, and while the greeting attribute has not
\* changed no operation of the element puts anything into it.
C18_EmptyAfterConstruction ==
    [][\A i \in Instances :
          /\ (~created[i] /\ created'[i])
                => shadowRoot'[i] = [mode |-> "open",
                                     adoptedStyleSheets |-> <<"styles">>,
                                     childNodes |-> <<>>]
          /\ ( /\ created[i]
               /\ shadowRoot[i].childNodes = <<>>
               /\ attributes[i] = Null
               /\ attributes'[i] = Null
               /\ lastOp'.op # "tamper" )
                => shadowRoot'[i] = shadowRoot[i]]_vars

C18_Witness ==
    /\ lastOp.op = "get"
    /\ lastOp.result = Null
    /\ created[lastOp.inst]
    /\ shadowRoot[lastOp.inst].mode = "open"
    /\ shadowRoot[lastOp.inst].childNodes = <<>>

\* C19: an operation on one instance leaves the greeting attribute and the
\* render root of every other instance unchanged, and no operation changes
\* the shared style sheet.
C19_NoInterference ==
    [][/\ \A i \in Instances :
             lastOp'.inst # i
                 => attributes'[i] = attributes[i] /\ shadowRoot'[i] = shadowRoot[i]
       /\ styles' = styles]_vars

C19_Witness ==
    /\ Cardinality(Instances) = 2
    /\ attributes["tag1"] = Str(<<"a">>)
    /\ attributes["tag2"] = Str(Hello)
    /\ GreetingTexts(shadowRoot["tag1"].childNodes) = << <<"A">> >>
    /\ GreetingTexts(shadowRoot["tag2"].childNodes) = << <<"H", "E", "L", "L", "O">> >>
    /\ lastOp.inst = "tag1"

====
